---- MODULE Spec2Model ----
(***************************************************************************)
(* Model of the class-12 multi-agent RAG service:                          *)
(*   - the chunk serializer (core/retrieval/serialization.py),             *)
(*   - the three-stage QA pipeline (core/agents/agents.py, api.py /qa),    *)
(*   - the upload / indexing path (api.py /index-pdf, indexing_service.py, *)
(*     vector_store_rest.py, vector_store.py clear_index).                 *)
(*                                                                         *)
(* Encoding of Python values.  A Python str                                 *)
(* is a sequence of tokens; a token is one character ("a", " ") or an      *)
(* indivisible piece of text ("C1", " Chunk from page ").  A value whose   *)
(* Python type varies (a metadata value, an Optional field) is a tagged    *)
(* record: PyInt(n), PyStr(s), PyDict(d), NoneVal, or Missing for an       *)
(* absent key.  A dict is the set of its <<key, value>> pairs.             *)
(***************************************************************************)
EXTENDS Integers, Sequences, FiniteSets, TLC

VARIABLES
    serDocs,      \* serializer: the ranked list handed to serialize_chunks_with_ids
    serOut,       \* serializer: the (context, citation_map) it returned, or NoneVal
    serCalls,     \* serializer: the calls made so far, each with its list and result
    serLocals,    \* serializer: context_parts and citation_map as the last call left them
    index,        \* the shared vector index: a set of vector records
    indexExists,  \* whether the Pinecone index exists at all
    pc,           \* /qa request: where the request stands
    payload,      \* /qa request: the raw question of the request body
    qa,           \* /qa request: the QAState threaded through the graph
    messages,     \* /qa request: transcript of the stage that is running
    response,     \* /qa request: what the caller received, or NoneVal
    hist,         \* /qa request: bookkeeping of what ran (stage runs, tool calls, queries)
    upl,          \* /index-pdf: per upload request, its position and locals
    log,          \* /index-pdf: bookkeeping of completed uploads and upserts
    clients,      \* the process's cached clients and the calls acquiring them
    ret           \* a lone call of retrieve / retrieval_tool: k, matches, result

serVars == <<serDocs, serOut, serCalls, serLocals>>
qaVars  == <<pc, payload, qa, messages, response, hist>>
idxVars == <<index, indexExists>>
uplVars == <<upl, log>>
cliVars == <<clients>>
retVars == <<ret>>
vars    == <<serDocs, serOut, serCalls, serLocals, index, indexExists, pc, payload, qa, messages,
             response, hist, upl, log, clients, ret>>

-----------------------------------------------------------------------------
(* Python values *)

NoneVal == [none |-> TRUE]
Missing == [missing |-> TRUE]
PyInt(n) == [int |-> n]
PyStr(s) == [str |-> s]
PyDict(d) == [dict |-> d]

\* Python truthiness (None, 0, "" and {} are falsy).
Truthy(v) ==
    /\ v # Missing
    /\ v # NoneVal
    /\ v # PyInt(0)
    /\ v # PyStr(<<>>)
    /\ v # PyDict({})

\* dict.get(key, default) on a value that is Missing when the key is absent.
Get(v, default) == IF v = Missing THEN default ELSE v

\* str(v) / f"{v}" of a tagged value.
Fmt(v) ==
    IF "int" \in DOMAIN v THEN <<ToString(v.int)>>
    ELSE IF "str" \in DOMAIN v THEN v.str
    ELSE <<"None">>

\* dict operations on a set of <<key, value>> pairs
Keys(d) == {p[1] : p \in d}
Lookup(d, k) == (CHOOSE p \in d : p[1] = k)[2]
DictSet(d, k, v) == {p \in d : p[1] # k} \cup {<<k, v>>}

Whitespace == {" ", "\n"}

RECURSIVE LStrip(_)
LStrip(s) == IF s # <<>> /\ Head(s) \in Whitespace THEN LStrip(Tail(s)) ELSE s

RECURSIVE RStrip(_)
RStrip(s) ==
    IF s # <<>> /\ s[Len(s)] \in Whitespace
    THEN RStrip(SubSeq(s, 1, Len(s) - 1)) ELSE s

\* str.strip()
Strip(s) == RStrip(LStrip(s))

\* sep.join(parts), parts being a list of strings
RECURSIVE Join(_, _)
Join(sep, parts) ==
    IF parts = <<>> THEN <<>>
    ELSE IF Len(parts) = 1 THEN parts[1]
    ELSE parts[1] \o sep \o Join(sep, Tail(parts))

-----------------------------------------------------------------------------
(* core/retrieval/serialization.py *)

\* chunk_id = f"C{idx}"
ChunkId(idx) == "C" \o ToString(idx)

\* page_num = doc.metadata.get("page") or doc.metadata.get("page_number", "unknown")
PageNum(meta) ==
    IF Truthy(meta.page) THEN meta.page
    ELSE Get(meta.page_number, PyStr(<<"unknown">>))

\* source = doc.metadata.get("source", "unknown")
SourceOf(meta) == Get(meta.source, PyStr(<<"unknown">>))

\* content = doc.page_content.strip()
ContentOf(doc) == Strip(doc.page_content)

\* f"{chunk_header}\n{content}" with
\* chunk_header = f"[{chunk_id}] Chunk from page {page_num}:"
ChunkBlock(idx, doc) ==
    <<"[", ChunkId(idx), "]", " Chunk from page ">>
        \o Fmt(PageNum(doc.metadata)) \o <<":", "\n">> \o ContentOf(doc)

\* the value stored at citation_map[chunk_id]
CitationEntry(doc) ==
    [page    |-> PageNum(doc.metadata),
     snippet |-> ContentOf(doc),
     source  |-> SourceOf(doc.metadata)]

\* the loop "for idx, doc in enumerate(docs, start=1)", from position idx on
RECURSIVE SerializeLoop(_, _, _, _)
SerializeLoop(docs, idx, context_parts, citation_map) ==
    IF idx > Len(docs)
    THEN [context_parts |-> context_parts, citation_map |-> citation_map]
    ELSE SerializeLoop(docs, idx + 1,
                       Append(context_parts, ChunkBlock(idx, docs[idx])),
                       DictSet(citation_map, ChunkId(idx), CitationEntry(docs[idx])))

\* the serializer joining its blocks with a single newline
serialize_chunks_single_newline(docs) ==
    LET r == SerializeLoop(docs, 1, <<>>, {})
    IN  [context      |-> Join(<<"\n">>, r.context_parts),
         citation_map |-> r.citation_map]

\* serialize_chunks_with_ids(docs) -> (context_str, citation_map)
serialize_chunks_with_ids(docs) ==
    LET r == SerializeLoop(docs, 1, <<>>, {})
    IN  [context      |-> Join(<<"\n", "\n">>, r.context_parts),
         citation_map |-> r.citation_map]

-----------------------------------------------------------------------------
(* core/retrieval/vector_store_rest.py: retrieve *)

\* top_k of the retrieval tool: retrieve(query, k=4)
RetrievalK == 4

Min(a, b) == IF a < b THEN a ELSE b

\* client.query(vector, top_k): the ranked matches the index may answer with.
\* Similarity ranking is the index service's business: any order of any
\* min(top_k, size) distinct records is a possible answer.
QueryMatches(idx, top_k) ==
    LET n == Min(top_k, Cardinality(idx))
    IN  {m \in [1..n -> idx] : \A i, j \in 1..n : i # j => m[i] # m[j]}

\* the Document built from a metadata key the records do not carry
MatchToDocument_wrong_key(match) ==
    [page_content |-> <<>>, metadata |-> match.metadata]

\* Document(page_content=metadata.get("text", ""), metadata=metadata) per match
MatchToDocument(match) ==
    [page_content |-> Get(match.metadata.text, PyStr(<<>>)).str,
     metadata     |-> match.metadata]

\* retrieve leaving out the last match of the answer
retrieve_drops_last_match(results) ==
    [i \in 1..(Len(results) - 1) |-> MatchToDocument(results[i])]

\* retrieve walking the matches from the last to the first
retrieve_reversed(results) ==
    [i \in DOMAIN results |-> MatchToDocument(results[Len(results) + 1 - i])]

\* retrieve(query, k), given the matches client.query(vector, top_k=k)
\* answered with: one Document per match, in the order of the matches
retrieve(results) ==
    [i \in DOMAIN results |-> MatchToDocument(results[i])]

\* retrieval_tool(query) -> (content, artifact), given what retrieve returned
retrieval_tool(docs) ==
    LET r == serialize_chunks_with_ids(docs)
    IN  [content  |-> r.context,
         artifact |-> [docs |-> docs, citation_map |-> r.citation_map]]

-----------------------------------------------------------------------------
(* core/agents/agents.py *)

HumanMessage(content) == [type |-> "human", content |-> content]
AIMessage(content) == [type |-> "ai", content |-> content]
ToolMessage(content, artifact) ==
    [type |-> "tool", content |-> content, artifact |-> artifact]

\* positions of the messages of one type
Positions(msgs, type) == {i \in DOMAIN msgs : msgs[i].type = type}

MaxOf(S) == CHOOSE x \in S : \A y \in S : y <= x

\* the content of the first AIMessage of the list
extract_first_ai_content(msgs) ==
    IF Positions(msgs, "ai") = {} THEN <<>>
    ELSE msgs[CHOOSE i \in Positions(msgs, "ai") :
                  \A j \in Positions(msgs, "ai") : i <= j].content

\* _extract_last_ai_content(messages)
extract_last_ai_content(msgs) ==
    IF Positions(msgs, "ai") = {} THEN <<>>
    ELSE msgs[MaxOf(Positions(msgs, "ai"))].content

\* _extract_artifacts_from_messages(messages): the artifact of the last
\* ToolMessage that has one, else ([], {})
extract_artifacts_from_messages(msgs) ==
    LET withArtifact == {i \in Positions(msgs, "tool") : msgs[i].artifact # NoneVal}
    IN  IF withArtifact = {} THEN [docs |-> <<>>, citation_map |-> {}]
        ELSE msgs[MaxOf(withArtifact)].artifact

\* retrieval_node without the final "citations if citations else None"
retrieval_node_keeps_empty_citations(msgs) ==
    LET tools == Positions(msgs, "tool")
        context == IF tools = {} THEN <<>> ELSE msgs[MaxOf(tools)].content
        citation_map == extract_artifacts_from_messages(msgs).citation_map
        citations == IF tools # {} /\ citation_map # {} THEN citation_map ELSE {}
    IN  [context   |-> PyStr(context),
         citations |-> PyDict(citations)]

\* retrieval_node falling back on the model's last text for the context
retrieval_node_context_from_ai(msgs) ==
    LET tools == Positions(msgs, "tool")
        context == IF tools = {} THEN extract_last_ai_content(msgs)
                   ELSE msgs[MaxOf(tools)].content
        citation_map == extract_artifacts_from_messages(msgs).citation_map
        citations == IF tools # {} /\ citation_map # {} THEN citation_map ELSE {}
    IN  [context   |-> PyStr(context),
         citations |-> IF citations # {} THEN PyDict(citations) ELSE NoneVal]

\* retrieval_node returning its citations only
retrieval_node_without_context(msgs) ==
    [citations |->
        IF extract_artifacts_from_messages(msgs).citation_map # {}
        THEN PyDict(extract_artifacts_from_messages(msgs).citation_map)
        ELSE NoneVal]

\* what retrieval_node returns for the transcript the agent produced
retrieval_node(msgs) ==
    LET tools == Positions(msgs, "tool")
        context == IF tools = {} THEN <<>> ELSE msgs[MaxOf(tools)].content
        citation_map == extract_artifacts_from_messages(msgs).citation_map
        citations == IF tools # {} /\ citation_map # {} THEN citation_map ELSE {}
    IN  [context   |-> PyStr(context),
         citations |-> IF citations # {} THEN PyDict(citations) ELSE NoneVal]

\* the chunk ids "C1".."C9", and the number of one
ChunkIdTokens == {ChunkId(n) : n \in 1..9}
KeyRank(k) == CHOOSE n \in 1..9 : ChunkId(n) = k

\* the chunk ids that occur in a text
ChunkIdsIn(text) == {text[i] : i \in DOMAIN text} \cap ChunkIdTokens

\* ", ".join(sorted(citations.keys())); sorted() of "C1".."C9" is by number
RECURSIVE JoinSortedKeys(_)
JoinSortedKeys(keys) ==
    IF keys = {} THEN <<>>
    ELSE LET least == CHOOSE k \in keys : \A j \in keys : KeyRank(k) <= KeyRank(j)
         IN  IF keys = {least} THEN <<least>>
             ELSE <<least, ",", " ">> \o JoinSortedKeys(keys \ {least})

\* summarization_node: citation_info
summarization_citation_info(citations) ==
    IF Truthy(citations)
    THEN <<"\n", "Available chunk IDs for citation: ">>
             \o JoinSortedKeys(Keys(citations.dict))
    ELSE <<>>

\* summarization_node: user_content
summarization_user_content(state) ==
    <<"Question: ">> \o state.question \o <<"\n", "\n", "Context:", "\n">>
        \o Fmt(state.context) \o summarization_citation_info(state.citations)

\* summarization_node returning a context of its own beside the draft
summarization_node_with_context(msgs) ==
    [draft_answer |-> PyStr(extract_last_ai_content(msgs)),
     context      |-> PyStr(<<>>)]

\* what summarization_node returns, given the transcript of its agent
summarization_node(msgs) ==
    [draft_answer |-> PyStr(extract_last_ai_content(msgs))]

\* verification_node: citation_info
verification_citation_info(citations) ==
    IF Truthy(citations)
    THEN <<"\n", "Valid chunk IDs in this context: ">>
             \o JoinSortedKeys(Keys(citations.dict))
             \o <<"\n", "Remove citations for invalid chunk IDs if found.">>
    ELSE <<>>

\* verification_node: user_content
verification_user_content(state) ==
    <<"Question: ">> \o state.question \o <<"\n", "\n", "Context:", "\n">>
        \o Fmt(state.context) \o <<"\n", "\n", "Draft Answer:", "\n">>
        \o Fmt(state.draft_answer)
        \o <<"\n", "\n", "Please verify and correct the draft answer, ensuring:",
             "\n", "1. Remove any unsupported claims",
             "\n", "2. Maintain citation accuracy",
             "\n", "3. All cited chunks must exist in the context">>
        \o verification_citation_info(state.citations)
        \o <<"\n", "4. Return only the corrected answer with proper citations.">>

\* what verification_node returns, given the transcript of its agent
verification_node(msgs) ==
    [answer |-> PyStr(extract_last_ai_content(msgs))]

-----------------------------------------------------------------------------
(* services/qa_service.py and core/agents/graph.py are not among the       *)
(* sources; the graph is modelled from the specification's state machine   *)
(* Start -> Retrieval -> Summarization -> Verification -> End.             *)

\* the QAState answer_question creates for a question
InitialState(question) ==
    [question     |-> question,
     context      |-> NoneVal,
     draft_answer |-> NoneVal,
     answer       |-> NoneVal,
     citations    |-> NoneVal]

\* a node's returned dict is written into the state, key by key
ApplyUpdate(state, update) ==
    [f \in DOMAIN state |-> IF f \in DOMAIN update THEN update[f] ELSE state[f]]

\* the stage the graph runs after a stage; "done" after the last
NextStage(stage) ==
    CASE stage = "retrieval"     -> "summarization"
      [] stage = "summarization" -> "verification"
      [] stage = "verification"  -> "done"

-----------------------------------------------------------------------------
(* api.py: /qa *)

Response(status, detail, body) ==
    [status |-> status, detail |-> detail, body |-> body]

\* the emptiness check without the strip()
AcceptedQuestion_unstripped(question) == question # <<>>

\* qa_endpoint: question = payload.question.strip(); accepted unless empty
AcceptedQuestion(question) == Strip(question) # <<>>

\* qa_endpoint: HTTPException(400) for an empty question
BadRequest == Response(400, "question must be a non-empty string.", NoneVal)

\* qa_endpoint: QAResponse(answer=..., context=..., citations=...)
QAResponse(result) ==
    Response(200, "",
             [answer    |-> Get(result.answer, PyStr(<<>>)),
              context   |-> Get(result.context, PyStr(<<>>)),
              citations |-> result.citations])

\* a handler that answers with what the state holds so far
exception_handler_partial(state) ==
    Response(200, "", [answer    |-> state.draft_answer,
                       context   |-> state.context,
                       citations |-> state.citations])

\* unhandled_exception_handler: the same 500 body for every exception
unhandled_exception_handler(state) ==
    Response(500, "Internal server error", NoneVal)

-----------------------------------------------------------------------------
(* services/indexing_service.py: index_pdf_file *)

\* the loop body "for i, doc in enumerate(docs, start=1)": page and source
\* are filled in where the loader left them falsy
NormalisePage(doc, i, file_path) ==
    LET m == doc.metadata
        withPage ==
            IF ~Truthy(m.page) /\ ~Truthy(m.page_number)
            THEN [m EXCEPT !.page = PyInt(i)] ELSE m
        withSource ==
            IF ~Truthy(withPage.source)
            THEN [withPage EXCEPT !.source = PyStr(file_path)] ELSE withPage
    IN  [doc EXCEPT !.metadata = withSource]

\* index_pdf_file up to its call of index_documents
NormalisePages(docs, file_path) ==
    [i \in DOMAIN docs |-> NormalisePage(docs[i], i, file_path)]

-----------------------------------------------------------------------------
(* core/retrieval/vector_store_rest.py: index_documents *)

\* batch_size of the upsert loop
BatchSize == 100

\* index_documents: defaults put on a parent document that lacks the keys
ParentDefaults(doc) ==
    LET m == doc.metadata
        withSource ==
            IF m.source = Missing
            THEN [m EXCEPT !.source = PyStr(<<"unknown">>)] ELSE m
        withPage ==
            IF withSource.page = Missing /\ withSource.page_number = Missing
            THEN [withSource EXCEPT !.page = PyStr(<<"unknown">>)] ELSE withSource
    IN  [doc EXCEPT !.metadata = withPage]

NoMetadata == [page |-> Missing, page_number |-> Missing, source |-> Missing]

\* text_splitter.split_documents([doc]) for a text shorter than chunk_size:
\* the stripped text as one chunk, no chunk for a blank text.  Whether the
\* splitter copies the parent's metadata onto the chunk is its own business.
SplitDocument(doc, copiesMetadata) ==
    IF Strip(doc.page_content) = <<>> THEN <<>>
    ELSE <<[page_content |-> Strip(doc.page_content),
            metadata     |-> IF copiesMetadata THEN doc.metadata ELSE NoMetadata]>>

\* index_documents defaulting the source of a chunk only
ChunkDefaults_source_only(ch, doc) ==
    LET m == ch.metadata
    IN  [ch EXCEPT !.metadata =
            IF m.source = Missing
            THEN [m EXCEPT !.source = Get(doc.metadata.source, PyStr(<<"unknown">>))]
            ELSE m]

\* index_documents: page and source of the parent put on a chunk lacking them
ChunkDefaults(ch, doc) ==
    LET m == ch.metadata
        withPage ==
            IF m.page = Missing /\ m.page_number = Missing
            THEN [m EXCEPT !.page = Get(doc.metadata.page, PyStr(<<"unknown">>))]
            ELSE m
        withSource ==
            IF withPage.source = Missing
            THEN [withPage EXCEPT
                      !.source = Get(doc.metadata.source, PyStr(<<"unknown">>))]
            ELSE withPage
    IN  [ch EXCEPT !.metadata = withSource]

\* index_documents: the body of "for doc in docs": the chunks one document
\* adds to all_chunks
ChunksOf(parent, copiesMetadata) ==
    LET doc == ParentDefaults(parent)
        chunks == SplitDocument(doc, copiesMetadata)
    IN  [j \in DOMAIN chunks |-> ChunkDefaults(chunks[j], doc)]

\* index_documents: all_chunks, the chunks of every document in order (the
\* list is halved rather than walked, to keep the evaluation shallow)
RECURSIVE AllChunks(_, _)
AllChunks(docs, copiesMetadata) ==
    IF docs = <<>> THEN <<>>
    ELSE IF Len(docs) = 1 THEN ChunksOf(docs[1], copiesMetadata)
    ELSE LET half == Len(docs) \div 2
         IN  AllChunks(SubSeq(docs, 1, half), copiesMetadata)
                 \o AllChunks(SubSeq(docs, half + 1, Len(docs)), copiesMetadata)

\* hash(chunk.page_content), taken to be free of collisions
PyHash(text) == text

\* a vector id made of the hash of the text alone
VectorId_hash_only(i, chunk) == [i |-> 0, hash |-> PyHash(chunk.page_content)]

\* vector_id = f"vec_{i}_{hash(chunk.page_content)}"
VectorId(i, chunk) == [i |-> i, hash |-> PyHash(chunk.page_content)]

\* index_documents: the vector objects, i counting from 0 (the embedding
\* values are left out: no operation of the model reads them)
Vectors(all_chunks) ==
    [n \in DOMAIN all_chunks |->
        [id       |-> VectorId(n - 1, all_chunks[n]),
         metadata |-> [page        |-> all_chunks[n].metadata.page,
                       page_number |-> all_chunks[n].metadata.page_number,
                       source      |-> all_chunks[n].metadata.source,
                       text        |-> PyStr(all_chunks[n].page_content)]]]

\* the slice vectors[i:i + batch_size - 1]
Batch_one_short(vectors, i) ==
    SubSeq(vectors, i + 1, Min(i + BatchSize - 1, Len(vectors)))

\* batch = vectors[i:i + batch_size]
Batch(vectors, i) == SubSeq(vectors, i + 1, Min(i + BatchSize, Len(vectors)))

\* PineconeRESTClient.upsert: the index after a successful upsert of a batch
Upsert(idx, batch) ==
    LET ids == {batch[n].id : n \in DOMAIN batch}
    IN  {r \in idx : r.id \notin ids} \cup {batch[n] : n \in DOMAIN batch}

-----------------------------------------------------------------------------
(* core/retrieval/vector_store.py: clear_index *)

\* the inner "try:" block: describe_index_stats, then delete when the index
\* reports vectors; with the index after it and whether an exception left it
ClearTry(idx, env) ==
    IF env.stats_fails THEN [index |-> idx, raised |-> TRUE]
    ELSE IF Cardinality(idx) > 0
         THEN IF env.delete_fails
              THEN [index |-> idx, raised |-> TRUE]
              ELSE [index |-> {}, raised |-> FALSE]
         ELSE [index |-> idx, raised |-> FALSE]

\* "except Exception as stats_error:": delete is tried (again), and a failure
\* of that call is logged, whatever its message
ClearHandler(idx, env) ==
    IF env.retry_fails
    THEN [index |-> idx, raised |-> FALSE]
    ELSE [index |-> {}, raised |-> FALSE]

\* the body of the outer "try:"
ClearBody(idx, exists, env) ==
    IF env.list_fails THEN [index |-> idx, raised |-> TRUE]
    ELSE IF ~exists THEN [index |-> idx, raised |-> FALSE]
    ELSE IF ClearTry(idx, env).raised THEN ClearHandler(idx, env)
    ELSE ClearTry(idx, env)

\* clear_index() without its outer "except Exception as e:"
clear_index_unguarded(idx, exists, env) == ClearBody(idx, exists, env)

\* clear_index(): the index after it and whether it raised; the outer
\* "except Exception as e:" logs and returns.  env says which of its calls
\* to Pinecone fail.
clear_index(idx, exists, env) ==
    [index |-> ClearBody(idx, exists, env).index, raised |-> FALSE]

ClearEnvs ==
    [list_fails : BOOLEAN, stats_fails : BOOLEAN,
     delete_fails : BOOLEAN, retry_fails : BOOLEAN]

-----------------------------------------------------------------------------
(* api.py: /index-pdf *)

\* file_path = upload_dir / f"{uuid.uuid4()}_{file.filename}"; the uuid of a
\* request is its number
FilePath(u, filename) == <<"uploads/", ToString(u), "_", filename>>

\* index_pdf: the answer for an uploaded file that is not a PDF
NotPdf == Response(400, "Only PDF files are supported.", NoneVal)

\* an except clause that answers with the chunk count all the same
index_pdf_swallows_error(chunks) ==
    Response(200, "PDF indexed successfully.", [chunks_indexed |-> Len(chunks)])

\* index_pdf: "except Exception as e" around index_pdf_file
index_pdf_on_error(chunks) ==
    Response(500, "Error processing PDF", NoneVal)

\* index_pdf: the answer after index_pdf_file returned chunks_indexed
index_pdf_ok(filename, chunks_indexed) ==
    Response(200, "PDF indexed successfully.",
             [filename |-> filename, chunks_indexed |-> chunks_indexed])

-----------------------------------------------------------------------------
(* Inputs *)

\* longest ranked list handed to the serializer
MaxDocs == 2
\* most tool-result messages in one Retrieval transcript
MaxToolMsgs == 2

SampleTexts == {<<"a">>, <<" ", "a">>, <<"a", " ", "b", "\n">>}
SamplePages == {Missing, PyInt(0), PyInt(2)}
SamplePageNumbers == {Missing, PyInt(7)}
SampleSources == {Missing, PyStr(<<"doc.pdf">>)}

SampleDocuments ==
    {[page_content |-> t,
      metadata     |-> [page |-> p, page_number |-> n, source |-> s]] :
        t \in SampleTexts, p \in SamplePages,
        n \in SamplePageNumbers, s \in SampleSources}

SampleDocLists == UNION {[1..n -> SampleDocuments] : n \in 0..MaxDocs}

\* a vector record as index_documents writes it
VectorRecord(i, text, page, source) ==
    [id       |-> [i |-> i, hash |-> text],
     metadata |-> [page |-> page, page_number |-> Missing,
                   source |-> source, text |-> PyStr(text)]]

\* index contents a question may meet
SampleIndexes ==
    {{},
     {VectorRecord(0, <<"a">>, PyInt(1), PyStr(<<"doc.pdf">>))},
     {VectorRecord(0, <<"a">>, PyInt(1), PyStr(<<"doc.pdf">>)),
      VectorRecord(1, <<"b">>, PyInt(2), PyStr(<<"doc.pdf">>))}}

\* request bodies of /qa
SampleQuestions == {<<>>, <<" ", " ", " ">>, <<"q">>, <<" ", "q", "\n">>}

\* texts the reasoning service may answer with
SampleAnswers == {<<>>, <<"w">>, <<"w", "C1">>, <<"w", "C2", "w", "C3">>}

\* what the agent of a tool-less stage may append to the transcript
SampleReplies ==
    {<<>>}
        \cup {<<AIMessage(t)>> : t \in SampleAnswers}
        \cup {<<AIMessage(<<"w", "C1">>), AIMessage(<<"w">>)>>}

\* a page as PyPDFLoader hands it over: 0-based page, no source of its own
LoadedPage(text, page) ==
    [page_content |-> text,
     metadata     |-> [page |-> PyInt(page), page_number |-> Missing,
                       source |-> Missing]]

Pdf(filename, pages) ==
    [filename |-> filename, content_type |-> "application/pdf", pages |-> pages]

\* uploaded files: one page, one page with white space around its text, one
\* page without text, two pages, one page more than a batch holds, and a
\* file that is no PDF
SampleFiles ==
    {Pdf("a.pdf", <<LoadedPage(<<"a">>, 0)>>),
     Pdf("p.pdf", <<LoadedPage(<<" ", "a", "\n">>, 0)>>),
     Pdf("e.pdf", <<LoadedPage(<<" ">>, 0)>>),
     Pdf("b.pdf", <<LoadedPage(<<"a", " ">>, 0), LoadedPage(<<"b">>, 1)>>),
     Pdf("big.pdf", [i \in 1..(BatchSize + 1) |-> LoadedPage(<<"c">>, i - 1)]),
     [filename |-> "n.txt", content_type |-> "text/plain", pages |-> <<>>]}

\* upload requests in one run
MaxUploads == 2
Uploaders == 1..MaxUploads

\* the ToolMessage of a tool call the tool node refused (bad arguments)
ToolErrorMessage == ToolMessage(<<"Error: invalid tool call">>, NoneVal)

-----------------------------------------------------------------------------
(* retrieve and retrieval_tool on their own *)

\* most records in an index a lone retrieve is run against
MaxRecords == 5

\* indexes of 0..MaxRecords records, as index_documents writes them
RetrieveIndexes ==
    {{VectorRecord(i - 1, <<"t", ToString(i)>>, PyInt(i), PyStr(<<"doc.pdf">>)) :
          i \in 1..n} : n \in 0..MaxRecords}

RetIdle == ret = NoneVal

\* one call retrieve(query, k)
RetrieveCall(k) ==
    /\ ret = NoneVal
    /\ \E results \in QueryMatches(index, k) :
          ret' = [k |-> k, matches |-> results, docs |-> retrieve(results),
                  tool |-> NoneVal]
    /\ UNCHANGED index

\* one call retrieval_tool(query): retrieve(query, k=4), then the serializer
RetrievalToolInvoke ==
    /\ ret = NoneVal
    /\ \E results \in QueryMatches(index, RetrievalK) :
          ret' = [k |-> RetrievalK, matches |-> results,
                  docs |-> retrieve(results),
                  tool |-> retrieval_tool(retrieve(results))]
    /\ UNCHANGED index

-----------------------------------------------------------------------------
(* The serializer on its own *)

\* no call made yet
NoCalls == serCalls = <<>> /\ serLocals = [context_parts |-> <<>>, citation_map |-> {}]

SerIdle == serDocs = <<>> /\ serOut = NoneVal /\ NoCalls

InitSer ==
    /\ serDocs \in SampleDocLists
    /\ serOut = NoneVal
    /\ NoCalls

\* one call of serialize_chunks_with_ids(serDocs)
SerializeCall ==
    /\ serOut = NoneVal
    /\ serOut' = serialize_chunks_with_ids(serDocs)
    /\ UNCHANGED <<serDocs, serCalls, serLocals>>

\* most calls of the serializer in one process
MaxSerCalls == 3

\* lists handed to the serializer by successive calls
SerCallDocuments ==
    {[page_content |-> t,
      metadata     |-> [page |-> PyInt(2), page_number |-> Missing,
                        source |-> PyStr(<<"doc.pdf">>)]] :
        t \in {<<"a">>, <<"a", " ", "b", "\n">>}}

SerCallLists == UNION {[1..n -> SerCallDocuments] : n \in 0..MaxDocs}

\* locals carried over from the call before
SerializerLocals_kept(prev) == prev

\* "context_parts = []" and "citation_map = {}" at the start of every call
SerializerLocals(prev) == [context_parts |-> <<>>, citation_map |-> {}]

\* one more call of serialize_chunks_with_ids in the same process
SerializeAgain ==
    /\ Len(serCalls) < MaxSerCalls
    /\ \E docs \in SerCallLists :
          LET start == SerializerLocals(serLocals)
              r     == SerializeLoop(docs, 1, start.context_parts,
                                     start.citation_map)
              out   == [context      |-> Join(<<"\n", "\n">>, r.context_parts),
                        citation_map |-> r.citation_map]
          IN  /\ serLocals' = r
              /\ serCalls' = Append(serCalls, [docs |-> docs, out |-> out])
    /\ UNCHANGED <<serDocs, serOut>>

-----------------------------------------------------------------------------
(* One /qa request *)

QAIdle ==
    /\ pc = "idle"
    /\ payload = <<>>
    /\ qa = NoneVal
    /\ messages = <<>>
    /\ response = NoneVal
    /\ hist = [order |-> <<>>, toolMsgs |-> 0, retrieveCalls |-> 0,
               modelCalls |-> 0, failedAt |-> "", retrievalOut |-> NoneVal,
               prompt |-> [summarization |-> <<>>, verification |-> <<>>],
               indexAtStart |-> {}, queries |-> <<>>, lastTool |-> "none"]

Enter(stage) == [hist EXCEPT !.order = Append(@, stage)]

\* qa_endpoint up to the first network call: validation, then
\* answer_question starts the graph and retrieval_node invokes its agent
qa_endpoint(question) ==
    /\ pc = "idle"
    /\ payload' = question
    /\ IF AcceptedQuestion(question)
       THEN /\ pc' = "retrieval"
            /\ qa' = InitialState(Strip(question))
            /\ messages' = <<HumanMessage(Strip(question))>>
            /\ hist' = [Enter("retrieval") EXCEPT !.indexAtStart = index]
            /\ UNCHANGED response
       ELSE /\ pc' = "rejected"
            /\ response' = BadRequest
            /\ UNCHANGED <<qa, messages, hist>>

\* bookkeeping of one index query: what it returned, the index it met, the
\* uploads that were past their clear and not yet finished, and those done
Query(docs) ==
    [docs     |-> docs,
     index    |-> index,
     inFlight |-> {u \in Uploaders : upl[u].pc \in {"load", "embed", "upsert"}},
     done     |-> {u \in Uploaders : upl[u].pc = "done"}]

\* Retrieval agent: the model calls retrieval_tool, which answers
RetrievalToolCall ==
    /\ pc = "retrieval"
    /\ hist.toolMsgs < MaxToolMsgs
    /\ indexExists
    /\ \E results \in QueryMatches(index, RetrievalK) :
          LET docs == retrieve(results)
              r == retrieval_tool(docs)
          IN  /\ messages' = messages \o
                      <<AIMessage(<<>>), ToolMessage(r.content, r.artifact)>>
              /\ hist' = [hist EXCEPT
                              !.toolMsgs = @ + 1, !.retrieveCalls = @ + 1,
                              !.modelCalls = @ + 1,
                              !.queries = Append(@, Query(docs)),
                              !.lastTool = "result"]
    /\ UNCHANGED <<pc, payload, qa, response>>

\* Retrieval agent: the model's tool call is refused; the transcript gets a
\* tool-result message without artifact
RetrievalToolRefused ==
    /\ pc = "retrieval"
    /\ hist.toolMsgs < MaxToolMsgs
    /\ messages' = messages \o <<AIMessage(<<>>), ToolErrorMessage>>
    /\ hist' = [hist EXCEPT !.toolMsgs = @ + 1, !.modelCalls = @ + 1,
                            !.lastTool = "refused"]
    /\ UNCHANGED <<pc, payload, qa, response>>

\* an exception leaves the graph, answer_question and qa_endpoint
Raise(stage, h) ==
    /\ pc' = "failed"
    /\ response' = unhandled_exception_handler(qa)
    /\ hist' = [h EXCEPT !.failedAt = stage]
    /\ UNCHANGED <<payload, qa, messages>>

\* Retrieval agent: the model call, the embedding call or the index query raises
RetrievalRaises ==
    /\ pc = "retrieval"
    /\ Raise("retrieval", hist)

\* Retrieval agent ends with a message of the model; retrieval_node
\* post-processes the transcript and returns its update
RetrievalStage ==
    /\ pc = "retrieval"
    /\ \E text \in {<<>>, <<"w", "C3">>} :
          LET msgs == messages \o <<AIMessage(text)>>
              update == retrieval_node(msgs)
          IN  /\ messages' = msgs
              /\ qa' = ApplyUpdate(qa, update)
              /\ hist' = [hist EXCEPT !.retrievalOut = update,
                                      !.modelCalls = @ + 1]
    /\ pc' = NextStage("retrieval")
    /\ UNCHANGED <<payload, response>>

SummarizationStage ==
    /\ pc = "summarization"
    /\ \E reply \in SampleReplies :
          LET msgs == <<HumanMessage(summarization_user_content(qa))>> \o reply
          IN  /\ messages' = msgs
              /\ qa' = ApplyUpdate(qa, summarization_node(msgs))
    /\ hist' = [Enter("summarization") EXCEPT
                    !.modelCalls = @ + 1,
                    !.prompt.summarization = summarization_user_content(qa)]
    /\ pc' = NextStage("summarization")
    /\ UNCHANGED <<payload, response>>

SummarizationRaises ==
    /\ pc = "summarization"
    /\ Raise("summarization", Enter("summarization"))

\* verification_node, after which the graph ends and qa_endpoint answers
VerificationStage ==
    /\ pc = "verification"
    /\ \E reply \in SampleReplies :
          LET msgs == <<HumanMessage(verification_user_content(qa))>> \o reply
              final == ApplyUpdate(qa, verification_node(msgs))
          IN  /\ messages' = msgs
              /\ qa' = final
              /\ response' = QAResponse(final)
    /\ hist' = [Enter("verification") EXCEPT
                    !.modelCalls = @ + 1,
                    !.prompt.verification = verification_user_content(qa)]
    /\ pc' = NextStage("verification")
    /\ UNCHANGED payload

VerificationRaises ==
    /\ pc = "verification"
    /\ Raise("verification", Enter("verification"))

-----------------------------------------------------------------------------
(* /index-pdf requests *)

IdleUpload ==
    [pc |-> "idle", file |-> NoneVal, cleared |-> FALSE, chunks |-> <<>>,
     vectors |-> <<>>, next |-> 0, failedAt |-> "", response |-> NoneVal]

UplIdle ==
    /\ upl = [u \in Uploaders |-> IdleUpload]
    /\ log = <<>>

Terminal == {"done", "failed", "rejected"}

\* index_pdf up to its first await: the content type check and clear_index()
index_pdf(u, file, env) ==
    /\ upl[u].pc = "idle"
    /\ IF file.content_type # "application/pdf"
       THEN /\ upl' = [upl EXCEPT ![u].pc = "rejected", ![u].file = file,
                                  ![u].response = NotPdf]
            /\ UNCHANGED <<index, indexExists, log>>
       ELSE LET r == clear_index(index, indexExists, env)
            IN  IF r.raised
                THEN /\ upl' = [upl EXCEPT
                                   ![u].pc = "failed", ![u].file = file,
                                   ![u].failedAt = "clear",
                                   ![u].response = unhandled_exception_handler(NoneVal)]
                     /\ UNCHANGED <<index, indexExists, log>>
                ELSE /\ index' = r.index
                     /\ upl' = [upl EXCEPT ![u].pc = "load", ![u].file = file,
                                           ![u].cleared = (r.index = {})]
                     /\ UNCHANGED <<indexExists, log>>

\* the exception of index_pdf_file reaches "except Exception as e" of index_pdf
UploadRaises(u, stage) ==
    /\ upl' = [upl EXCEPT ![u].pc = "failed", ![u].failedAt = stage,
                          ![u].response = index_pdf_on_error(upl[u].chunks)]
    /\ UNCHANGED <<index, indexExists, log>>

\* index_pdf_file: load, normalise; index_documents: defaults and split
IndexLoad(u) ==
    /\ upl[u].pc = "load"
    /\ \E copiesMetadata \in BOOLEAN :
          LET docs == NormalisePages(upl[u].file.pages,
                                     FilePath(u, upl[u].file.filename))
          IN  upl' = [upl EXCEPT ![u].pc = "embed",
                                 ![u].chunks = AllChunks(docs, copiesMetadata)]
    /\ UNCHANGED <<index, indexExists, log>>

\* loader.load() raises
LoadFails(u) ==
    /\ upl[u].pc = "load"
    /\ UploadRaises(u, "load")

\* index_documents: embed_documents(texts) and the vector objects; with no
\* vector the upsert loop is empty and the count is returned at once
Embed(u) ==
    /\ upl[u].pc = "embed"
    /\ LET vectors == Vectors(upl[u].chunks)
       IN  upl' = IF vectors = <<>>
                  THEN [upl EXCEPT
                           ![u].pc = "done",
                           ![u].response = index_pdf_ok(upl[u].file.filename,
                                                        Len(upl[u].chunks))]
                  ELSE [upl EXCEPT ![u].pc = "upsert", ![u].vectors = vectors]
    /\ UNCHANGED <<index, indexExists, log>>

\* embeddings.embed_documents raises
EmbedFails(u) ==
    /\ upl[u].pc = "embed"
    /\ UploadRaises(u, "embed")

\* index_documents: one round of "for i in range(0, len(vectors), batch_size)";
\* after the last round index_pdf_file returns len(all_chunks) and index_pdf
\* answers
UpsertBatch(u) ==
    /\ upl[u].pc = "upsert"
    /\ indexExists
    /\ LET i == upl[u].next
           batch == Batch(upl[u].vectors, i)
       IN  /\ index' = Upsert(index, batch)
           /\ log' = Append(log, [u |-> u, from |-> i, n |-> Len(batch),
                                  ids |-> [n \in DOMAIN batch |-> batch[n].id]])
           /\ upl' = IF i + BatchSize >= Len(upl[u].vectors)
                     THEN [upl EXCEPT
                              ![u].pc = "done", ![u].next = i + BatchSize,
                              ![u].response = index_pdf_ok(upl[u].file.filename,
                                                           Len(upl[u].chunks))]
                     ELSE [upl EXCEPT ![u].next = i + BatchSize]
    /\ UNCHANGED indexExists

\* client.upsert raises (raise_for_status, or no such index)
UpsertFails(u) ==
    /\ upl[u].pc = "upsert"
    /\ UploadRaises(u, "upsert")

\* no other upload is running, and requests are numbered as they come
Alone(u) ==
    /\ \A v \in Uploaders \ {u} : upl[v].pc \in Terminal \cup {"idle"}
    /\ \A v \in Uploaders : v < u => upl[v].pc # "idle"

-----------------------------------------------------------------------------
(* core/retrieval/vector_store_rest.py: the cached clients.  _get_embeddings
   and _get_pinecone_client are wrapped in functools.lru_cache(maxsize=1):
   the wrapper looks the key up, and on a miss calls the function and then
   stores the result.  The function runs outside the cache's lock, so a
   second call that misses before the first has stored runs it too; the
   wrapper then keeps the entry already stored and returns its own result. *)

\* calls of retrieve / index_documents that may overlap in the process
MaxCallers == 2
Callers == 1..MaxCallers

ClientKinds == {"embeddings", "pinecone"}

IdleCaller ==
    [pc |-> "idle", op |-> "", kind |-> "",
     embeddings |-> NoneVal, pinecone |-> NoneVal]

\* the process before any call: nothing constructed, nothing cached
CliIdle ==
    clients = [cache  |-> [k \in ClientKinds |-> NoneVal],
               built  |-> [k \in ClientKinds |-> 0],
               caller |-> [t \in Callers |-> IdleCaller]]

\* retrieve(query, k) or index_documents(docs) is entered; its first
\* statement about clients is "embeddings = _get_embeddings()"
CallStart(t, op) ==
    /\ clients.caller[t].pc \in {"idle", "returned"}
    /\ clients' = [clients EXCEPT
                      !.caller[t] = [pc |-> "lookup", op |-> op,
                                     kind |-> "embeddings",
                                     embeddings |-> NoneVal,
                                     pinecone |-> NoneVal]]

\* the statement after the getter of a kind returned
AfterGetter(c) ==
    IF c.kind = "embeddings"
    THEN [c EXCEPT !.pc = "lookup", !.kind = "pinecone"]
    ELSE [c EXCEPT !.pc = "use", !.kind = ""]

\* lru_cache wrapper: the lookup; a hit returns the cached instance, a miss
\* goes on to call the wrapped function
CacheLookup(t) ==
    LET c == clients.caller[t]
    IN  /\ c.pc = "lookup"
        /\ clients' = [clients EXCEPT
                          !.caller[t] =
                              IF clients.cache[c.kind] # NoneVal
                              THEN AfterGetter([c EXCEPT
                                       ![c.kind] = clients.cache[c.kind]])
                              ELSE [c EXCEPT !.pc = "build"]]

\* lru_cache wrapper after a miss: the wrapped function constructs a client
\* (numbered in order of construction); the result is stored unless the key
\* was stored meanwhile, and is returned to this caller either way
CacheFill(t) ==
    LET c == clients.caller[t]
        new == PyInt(clients.built[c.kind] + 1)
    IN  /\ c.pc = "build"
        /\ clients' = [clients EXCEPT
                          !.built[c.kind] = @ + 1,
                          !.cache[c.kind] = IF @ = NoneVal THEN new ELSE @,
                          !.caller[t] = AfterGetter([c EXCEPT ![c.kind] = new])]

\* the call makes its requests with the instances it holds, and returns
CallReturn(t) ==
    /\ clients.caller[t].pc = "use"
    /\ clients' = [clients EXCEPT !.caller[t].pc = "returned"]

-----------------------------------------------------------------------------
(* Specifications *)

\* the serializer applied to every sample list
SerFrame == UNCHANGED <<qaVars, idxVars, uplVars, cliVars, retVars>>

InitSerOnly ==
    /\ InitSer /\ QAIdle /\ UplIdle /\ CliIdle /\ RetIdle
    /\ index = {}
    /\ indexExists = TRUE

NextSer == SerializeCall /\ SerFrame

SpecSer == InitSerOnly /\ [][NextSer]_vars

\* successive calls of the serializer in one process
InitSerCalls ==
    /\ SerIdle /\ QAIdle /\ UplIdle /\ CliIdle /\ RetIdle
    /\ index = {}
    /\ indexExists = TRUE

NextSerCalls == SerializeAgain /\ SerFrame

SpecSerCalls == InitSerCalls /\ [][NextSerCalls]_vars

\* one question against an index that no upload touches meanwhile
QAFrame == UNCHANGED <<serVars, idxVars, uplVars, cliVars, retVars>>

InitQA ==
    /\ SerIdle /\ QAIdle /\ UplIdle /\ CliIdle /\ RetIdle
    /\ index \in SampleIndexes
    /\ indexExists = TRUE

NextQA ==
    \/ \E question \in SampleQuestions : qa_endpoint(question) /\ QAFrame
    \/ RetrievalToolCall /\ QAFrame
    \/ RetrievalToolRefused /\ QAFrame
    \/ RetrievalRaises /\ QAFrame
    \/ RetrievalStage /\ QAFrame
    \/ SummarizationStage /\ QAFrame
    \/ SummarizationRaises /\ QAFrame
    \/ VerificationStage /\ QAFrame
    \/ VerificationRaises /\ QAFrame

SpecQA == InitQA /\ [][NextQA]_vars

\* one question whose every call to the reasoning service, the embedding
\* service and the index returns: the handler then runs on to its end
NextQAAnswers ==
    \/ \E question \in SampleQuestions : qa_endpoint(question) /\ QAFrame
    \/ RetrievalToolCall /\ QAFrame
    \/ RetrievalToolRefused /\ QAFrame
    \/ RetrievalStage /\ QAFrame
    \/ SummarizationStage /\ QAFrame
    \/ VerificationStage /\ QAFrame

SpecQAAnswers == InitQA /\ [][NextQAAnswers]_vars /\ WF_vars(NextQAAnswers)

\* uploads one after another, against an index that starts empty or missing
UploadFrame == UNCHANGED <<serVars, qaVars, cliVars, retVars>>

InitUpload ==
    /\ SerIdle /\ QAIdle /\ UplIdle /\ CliIdle /\ RetIdle
    /\ index = {}
    /\ indexExists \in BOOLEAN

NextUpload ==
    \/ \E u \in Uploaders, file \in SampleFiles, env \in ClearEnvs :
          Alone(u) /\ index_pdf(u, file, env) /\ UploadFrame
    \/ \E u \in Uploaders : IndexLoad(u) /\ UploadFrame
    \/ \E u \in Uploaders : LoadFails(u) /\ UploadFrame
    \/ \E u \in Uploaders : Embed(u) /\ UploadFrame
    \/ \E u \in Uploaders : EmbedFails(u) /\ UploadFrame
    \/ \E u \in Uploaders : UpsertBatch(u) /\ UploadFrame
    \/ \E u \in Uploaders : UpsertFails(u) /\ UploadFrame

SpecUpload == InitUpload /\ [][NextUpload]_vars

\* one question in flight while an upload comes in: the handlers share the
\* index and nothing orders their network calls.  The question is followed
\* to the end of its Retrieval stage, the later stages making no index call;
\* the upload's file is one of less than a batch.
InitConc ==
    /\ SerIdle /\ QAIdle /\ UplIdle /\ CliIdle /\ RetIdle
    /\ index \in SampleIndexes
    /\ indexExists = TRUE

ConcFiles == {f \in SampleFiles : Len(f.pages) < BatchSize}

NextConc ==
    \/ \E question \in SampleQuestions : qa_endpoint(question) /\ QAFrame
    \/ RetrievalToolCall /\ QAFrame
    \/ RetrievalToolRefused /\ QAFrame
    \/ RetrievalRaises /\ QAFrame
    \/ RetrievalStage /\ QAFrame
    \/ \E file \in ConcFiles, env \in ClearEnvs :
          index_pdf(1, file, env) /\ UploadFrame
    \/ IndexLoad(1) /\ UploadFrame
    \/ LoadFails(1) /\ UploadFrame
    \/ Embed(1) /\ UploadFrame
    \/ EmbedFails(1) /\ UploadFrame
    \/ UpsertBatch(1) /\ UploadFrame
    \/ UpsertFails(1) /\ UploadFrame

SpecConc == InitConc /\ [][NextConc]_vars

\* two uploads in flight at once: each handler clears, loads, embeds and
\* upserts on its own, and nothing orders the calls of one against the
\* calls of the other
TwoUploaders == {1, 2}

InitTwoUploads ==
    /\ SerIdle /\ QAIdle /\ UplIdle /\ CliIdle /\ RetIdle
    /\ index = {}
    /\ indexExists = TRUE

NextTwoUploads ==
    \/ \E u \in TwoUploaders, file \in ConcFiles, env \in ClearEnvs :
          index_pdf(u, file, env) /\ UploadFrame
    \/ \E u \in TwoUploaders : IndexLoad(u) /\ UploadFrame
    \/ \E u \in TwoUploaders : LoadFails(u) /\ UploadFrame
    \/ \E u \in TwoUploaders : Embed(u) /\ UploadFrame
    \/ \E u \in TwoUploaders : EmbedFails(u) /\ UploadFrame
    \/ \E u \in TwoUploaders : UpsertBatch(u) /\ UploadFrame
    \/ \E u \in TwoUploaders : UpsertFails(u) /\ UploadFrame

SpecTwoUploads == InitTwoUploads /\ [][NextTwoUploads]_vars

\* calls of retrieve and index_documents in one process, overlapping or not,
\* followed through their acquisition of the two clients
ClientsFrame == UNCHANGED <<serVars, qaVars, idxVars, uplVars, retVars>>

InitClients ==
    /\ SerIdle /\ QAIdle /\ UplIdle /\ CliIdle /\ RetIdle
    /\ index = {}
    /\ indexExists = TRUE

NextClients ==
    \/ \E t \in Callers, op \in {"retrieve", "index_documents"} :
          CallStart(t, op) /\ ClientsFrame
    \/ \E t \in Callers : CacheLookup(t) /\ ClientsFrame
    \/ \E t \in Callers : CacheFill(t) /\ ClientsFrame
    \/ \E t \in Callers : CallReturn(t) /\ ClientsFrame

SpecClients == InitClients /\ [][NextClients]_vars

\* a lone call of retrieve or of the retrieval tool against an index of
\* 0..MaxRecords records
RetrieveFrame == UNCHANGED <<serVars, qaVars, indexExists, uplVars, cliVars>>

InitRetrieve ==
    /\ SerIdle /\ QAIdle /\ UplIdle /\ CliIdle /\ RetIdle
    /\ index \in RetrieveIndexes
    /\ indexExists = TRUE

NextRetrieve ==
    \/ \E k \in 1..(RetrievalK + 1) : RetrieveCall(k) /\ RetrieveFrame
    \/ RetrievalToolInvoke /\ RetrieveFrame

SpecRetrieve == InitRetrieve /\ [][NextRetrieve]_vars

-----------------------------------------------------------------------------
(* Claims *)

\* C1: for a ranked list of n chunks the citation map has exactly the n keys
\* C1..Cn, and entry Ci holds the i-th chunk's content verbatim as snippet,
\* its page metadata as page and its source metadata as source.
C1_CitationMapMirrorsChunks ==
    serOut # NoneVal =>
        LET n == Len(serDocs)
            cm == serOut.citation_map
        IN  /\ Keys(cm) = {ChunkId(i) : i \in 1..n}
            /\ Cardinality(cm) = n
            /\ \A i \in 1..n :
                  LET e == Lookup(cm, ChunkId(i))
                      meta == serDocs[i].metadata
                  IN  /\ e.snippet = serDocs[i].page_content
                      /\ meta.page # Missing => e.page = meta.page
                      /\ meta.source # Missing => e.source = meta.source

\* keys of the citations of a QAState (none when citations is absent)
CitationKeys(state) ==
    IF state.citations = NoneVal THEN {} ELSE Keys(state.citations.dict)

\* chunk ids that stand as "[Ck]" block headers in a context string
HeaderIds(text) ==
    {text[i + 1] : i \in {j \in 1..(Len(text) - 2) :
                            text[j] = "[" /\ text[j + 2] = "]"}}
        \cap ChunkIdTokens

\* C2: after retrieval_node, context and citations both come from the last
\* tool-result message of the transcript (context its content, citations the
\* citation map of its artifact, absent when it has none or the map is
\* empty), so the [Ck] headers of context are exactly the keys of citations.
C2_ContextAndCitationsFromLastToolMessage ==
    pc = "summarization" =>
        LET tools == Positions(messages, "tool")
            last == messages[MaxOf(tools)]
        IN  IF tools = {}
            THEN qa.context = PyStr(<<>>) /\ qa.citations = NoneVal
            ELSE /\ qa.context = PyStr(last.content)
                 /\ qa.citations =
                        IF last.artifact # NoneVal /\ last.artifact.citation_map # {}
                        THEN PyDict(last.artifact.citation_map)
                        ELSE NoneVal
                 /\ HeaderIds(qa.context.str) = CitationKeys(qa)

StageOrder == <<"retrieval", "summarization", "verification">>

IsPrefix(s, t) == Len(s) <= Len(t) /\ \A i \in DOMAIN s : s[i] = t[i]

Entered(stage) == \E i \in DOMAIN hist.order : hist.order[i] = stage

\* C3: the stages are entered in the order Retrieval, Summarization,
\* Verification, none twice; Summarization only once Retrieval has written
\* context and citations, Verification only once Summarization has written
\* draft_answer; the pipeline ends only after Verification has written answer.
C3_StagesInOrderOnce ==
    /\ IsPrefix(hist.order, StageOrder)
    /\ pc \notin {"idle", "rejected"} => Entered("retrieval")
    /\ pc = "summarization" \/ Entered("summarization") =>
          /\ hist.retrievalOut # NoneVal
          /\ {"context", "citations"} \subseteq DOMAIN hist.retrievalOut
          /\ qa.context # NoneVal
    /\ pc = "verification" \/ Entered("verification") =>
          /\ Entered("summarization")
          /\ qa.draft_answer # NoneVal
    /\ pc = "done" =>
          /\ hist.order = StageOrder
          /\ qa.answer # NoneVal

C3_Witness ==
    /\ pc = "done"
    /\ hist.order = StageOrder
    /\ qa.citations # NoneVal
    /\ qa.answer = PyStr(<<"w", "C1">>)

\* C4: every chunk id inside draft_answer or answer is a key of
\* citations (none when citations is absent), whatever the service returned.
C4_CitedIdsAreCitationKeys ==
    qa # NoneVal =>
        /\ qa.draft_answer # NoneVal =>
              ChunkIdsIn(qa.draft_answer.str) \subseteq CitationKeys(qa)
        /\ qa.answer # NoneVal =>
              ChunkIdsIn(qa.answer.str) \subseteq CitationKeys(qa)

\* C5: when a stage raises, the caller gets the generic failure and no answer,
\* the failing stage is the last one entered, and nothing runs afterwards.
C5_FailureEndsPipeline ==
    /\ [](pc = "failed" =>
            /\ response # NoneVal
            /\ response.status = 500
            /\ response.body = NoneVal
            /\ hist.order # <<>>
            /\ hist.order[Len(hist.order)] = hist.failedAt
            /\ IsPrefix(hist.order, StageOrder))
    /\ [][pc = "failed" => UNCHANGED <<pc, qa, response, hist, messages>>]_vars

C5_Witness ==
    /\ pc = "failed"
    /\ hist.failedAt = "verification"
    /\ qa.context # PyStr(<<>>)
    /\ qa.draft_answer = PyStr(<<"w", "C1">>)
    /\ response.status = 500

\* C6: a question that is empty or all whitespace is rejected with a
\* validation failure, and no stage, retrieval or model call happens for it.
C6_BlankQuestionRejected ==
    pc # "idle" /\ (\A i \in DOMAIN payload : payload[i] \in Whitespace) =>
        /\ pc = "rejected"
        /\ response # NoneVal
        /\ response.status = 400
        /\ hist.order = <<>>
        /\ hist.retrieveCalls = 0
        /\ hist.toolMsgs = 0
        /\ hist.modelCalls = 0
        /\ qa = NoneVal

C6_Witness ==
    /\ pc = "rejected"
    /\ payload = <<" ", " ", " ">>
    /\ response.status = 400

\* the QAState fields a step changed
Changed == {f \in DOMAIN qa : qa'[f] # qa[f]}

\* C7: Retrieval changes only context and citations, Summarization only
\* draft_answer, Verification only answer; question never changes, and
\* context and citations stay what Retrieval returned.
C7_StagesWriteOnlyOwnFields ==
    /\ [][qa # NoneVal =>
            /\ DOMAIN qa' = DOMAIN qa
            /\ qa'.question = qa.question
            /\ pc = "retrieval" => Changed \subseteq {"context", "citations"}
            /\ pc = "summarization" => Changed \subseteq {"draft_answer"}
            /\ pc = "verification" => Changed \subseteq {"answer"}]_vars
    /\ [](qa # NoneVal /\ hist.retrievalOut # NoneVal =>
            /\ qa.context = hist.retrievalOut.context
            /\ qa.citations = hist.retrievalOut.citations
            /\ qa.question = Strip(payload))

C7_Witness ==
    /\ pc = "done"
    /\ qa.context # PyStr(<<>>)
    /\ qa.citations # NoneVal
    /\ qa.draft_answer = PyStr(<<"w", "C1">>)
    /\ qa.answer = PyStr(<<"w">>)

\* the upload that completed last, nothing having started since
Latest(u) ==
    /\ upl[u].pc = "done"
    /\ \A v \in Uploaders : v > u => upl[v].pc = "idle"

RecordsOf(u) == {upl[u].vectors[n] : n \in DOMAIN upl[u].vectors}

EarlierRecords(u) == UNION {RecordsOf(v) : v \in {w \in Uploaders : w < u}}

\* C8 as stated: after a successful upload that ran alone the index holds
\* exactly the records of that upload, whatever the clear step did.
C8_IndexIsLatestUpload ==
    \A u \in Uploaders : Latest(u) => index = RecordsOf(u)

\* C8 as amended: after a successful upload that ran alone the index holds
\* every record of that upload and, when the clear step left the index
\* empty, nothing else; otherwise what is left over are earlier records.
C8_IndexIsLatestUploadIfCleared ==
    \A u \in Uploaders :
        Latest(u) =>
            /\ RecordsOf(u) \subseteq index
            /\ index \subseteq RecordsOf(u) \cup EarlierRecords(u)
            /\ upl[u].cleared => index = RecordsOf(u)

C8_Witness ==
    /\ upl[1].pc = "done"
    /\ Len(upl[1].vectors) = 2
    /\ Latest(2)
    /\ upl[2].cleared
    /\ Len(upl[2].vectors) = BatchSize + 1
    /\ index = RecordsOf(2)

IsPdf(u) ==
    upl[u].file # NoneVal /\ upl[u].file.content_type = "application/pdf"

\* C9: whatever the clear step meets, a PDF upload goes on to loading,
\* splitting, embedding and upserting: it is never refused and never fails
\* in the clear step.
C9_ClearNeverBlocksIngestion ==
    \A u \in Uploaders :
        IsPdf(u) =>
            /\ upl[u].pc \in {"load", "embed", "upsert", "done", "failed"}
            /\ upl[u].failedAt # "clear"
            /\ upl[u].pc = "failed" => upl[u].failedAt \in {"load", "embed", "upsert"}

C9_Witness ==
    /\ upl[1].pc = "done"
    /\ Latest(2)
    /\ ~upl[2].cleared
    /\ RecordsOf(2) # {}
    /\ RecordsOf(2) \subseteq index

\* the upserts of one upload, in the order they were made
UpsertsOf(l, u) == SelectSeq(l, LAMBDA e : e.u = u)

\* C10: when embedding or an upsert batch fails the upload answers with a
\* failure and no chunk count, the batches before the failing one are the
\* only ones sent, and nothing is upserted for that upload afterwards.
C10_IndexingFailurePropagates ==
    /\ [](\A u \in Uploaders :
            upl[u].pc = "failed" /\ upl[u].failedAt \in {"embed", "upsert"} =>
                /\ upl[u].response.status = 500
                /\ upl[u].response.body = NoneVal
                /\ Len(UpsertsOf(log, u)) * BatchSize = upl[u].next
                /\ upl[u].failedAt = "embed" => UpsertsOf(log, u) = <<>>
                /\ upl[u].failedAt = "upsert" => upl[u].next < Len(upl[u].vectors))
    /\ [][\A u \in Uploaders :
            upl[u].pc = "failed" =>
                /\ upl'[u] = upl[u]
                /\ UpsertsOf(log', u) = UpsertsOf(log, u)]_vars

C10_Witness ==
    \E u \in Uploaders :
        /\ upl[u].pc = "failed"
        /\ upl[u].failedAt = "upsert"
        /\ upl[u].next = BatchSize
        /\ Len(UpsertsOf(log, u)) = 1
        /\ upl[u].response.status = 500

\* what a query of k against a corpus returns in full
FullAnswer(corpus) == Min(RetrievalK, Cardinality(corpus))

\* C11: a question's index query returns what the index holds at that
\* instant, so it gets fewer chunks than the corpus it started against would
\* give only when an upload's clear or upserts came in between; and that
\* interleaving is reachable (the witness).
C11_IncompleteOnlyUnderUpload ==
    \A i \in DOMAIN hist.queries :
        LET q == hist.queries[i]
        IN  /\ Len(q.docs) = FullAnswer(q.index)
            /\ Len(q.docs) < FullAnswer(hist.indexAtStart) =>
                  /\ q.index # hist.indexAtStart
                  /\ upl[1].pc # "idle"

\* the question starts against the old corpus of two records, its query
\* falls between the upload's clear and its upserts and returns nothing,
\* and the upload then completes a new corpus of two records
C11_Witness ==
    /\ pc = "summarization"
    /\ Cardinality(hist.indexAtStart) = 2
    /\ Len(hist.queries) = 1
    /\ hist.queries[1].docs = <<>>
    /\ hist.queries[1].inFlight = {1}
    /\ qa.context = PyStr(<<>>)
    /\ qa.citations = NoneVal
    /\ upl[1].pc = "done"
    /\ Cardinality(RecordsOf(1)) = 2
    /\ index = RecordsOf(1)

\* the Retrieval transcript ended on a tool result that holds no chunk
EmptyRetrieval ==
    /\ hist.lastTool = "result"
    /\ hist.queries[Len(hist.queries)].docs = <<>>

\* C12: when the last tool result holds no chunk, its content is the empty
\* string and its citation map is empty, Retrieval stores context = "" and no
\* citations, and Summarization and Verification still run to the end: the
\* caller gets an answer with that context and without citations.
C12_EmptyRetrievalCompletes ==
    /\ [](EmptyRetrieval =>
            /\ pc = "retrieval" =>
                  LET last == messages[MaxOf(Positions(messages, "tool"))]
                  IN  /\ last.content = <<>>
                      /\ last.artifact.docs = <<>>
                      /\ last.artifact.citation_map = {}
            /\ pc \in {"summarization", "verification", "done"} =>
                  /\ qa.context = PyStr(<<>>)
                  /\ qa.citations = NoneVal)
    /\ (EmptyRetrieval /\ pc = "summarization")
          ~> (/\ pc = "done"
              /\ hist.order = StageOrder
              /\ response.status = 200
              /\ response.body.context = PyStr(<<>>)
              /\ response.body.citations = NoneVal)

C12_Witness ==
    /\ EmptyRetrieval
    /\ pc = "done"
    /\ hist.toolMsgs = 1
    /\ qa.draft_answer = PyStr(<<"w">>)
    /\ response.status = 200
    /\ response.body.answer = PyStr(<<"w">>)
    /\ response.body.context = PyStr(<<>>)

\* C13: when the Retrieval transcript holds no tool-result message, the stage
\* writes context = "" and no citations, whatever text the model wrote.
C13_NoToolCallGivesEmptyContext ==
    hist.retrievalOut # NoneVal /\ hist.toolMsgs = 0 =>
        /\ hist.retrievalOut = [context |-> PyStr(<<>>), citations |-> NoneVal]
        /\ qa.context = PyStr(<<>>)
        /\ qa.citations = NoneVal

C13_Witness ==
    /\ pc = "summarization"
    /\ hist.toolMsgs = 0
    /\ index # {}
    /\ Positions(messages, "tool") = {}
    /\ extract_last_ai_content(messages) = <<"w", "C3">>
    /\ qa.context = PyStr(<<>>)
    /\ qa.citations = NoneVal

\* C14: each client is constructed at most once and not before a call needs
\* it, the cached instance is never replaced, and every call holds the
\* cached instance, also when calls overlap.
C14_ClientsConstructedOnce ==
    /\ \A k \in ClientKinds :
          /\ clients.built[k] <= 1
          /\ clients.cache[k] \in {NoneVal, PyInt(1)}
    /\ (\A t \in Callers : clients.caller[t].pc = "idle") =>
          \A k \in ClientKinds : clients.built[k] = 0
    /\ \A t \in Callers, k \in ClientKinds :
          clients.caller[t][k] # NoneVal =>
              clients.caller[t][k] = clients.cache[k]

\* the page a chunk or a page carries: its page, else its page_number
Carried(meta) == IF meta.page # Missing THEN meta.page ELSE meta.page_number

\* the pages index_pdf_file hands to index_documents for an upload
ParentPages(u) ==
    NormalisePages(upl[u].file.pages, FilePath(u, upl[u].file.filename))

\* C15: every chunk index_documents embeds and upserts carries a non-empty
\* source and page; the chunks are those of the pages one by one, in order,
\* and a chunk's page and source are those of the page its text came from.
C15_ChunksCarryParentPageAndSource ==
    \A u \in Uploaders :
        upl[u].pc \in {"embed", "upsert", "done"} =>
            LET parents == ParentPages(u)
                chunks == upl[u].chunks
            IN  /\ Len(chunks) <= Len(parents)
                /\ \A n \in DOMAIN upl[u].vectors :
                      /\ upl[u].vectors[n].metadata.page = chunks[n].metadata.page
                      /\ upl[u].vectors[n].metadata.source = chunks[n].metadata.source
                      /\ upl[u].vectors[n].metadata.text = PyStr(chunks[n].page_content)
                /\ \A n \in DOMAIN chunks :
                      /\ Truthy(chunks[n].metadata.source)
                      /\ Truthy(Carried(chunks[n].metadata))
                      /\ Len(chunks) = Len(parents) =>
                            /\ chunks[n].page_content = Strip(parents[n].page_content)
                            /\ Carried(chunks[n].metadata) = Carried(parents[n].metadata)
                            /\ chunks[n].metadata.source = parents[n].metadata.source

C15_Witness ==
    /\ upl[1].pc = "done"
    /\ upl[1].file.filename = "b.pdf"
    /\ Len(upl[1].chunks) = 2
    /\ upl[1].chunks[2].page_content = <<"b">>
    /\ upl[1].chunks[2].metadata.source = PyStr(FilePath(1, "b.pdf"))
    /\ upl[1].vectors[2].metadata.page = PyInt(1)
    /\ upl[1].vectors[2] \in index

\* t occurs in s as a contiguous piece
Contains(s, t) ==
    \E i \in 0..(Len(s) - Len(t)) : SubSeq(s, i + 1, i + Len(t)) = t

\* the queries made after upload 1 filled an index its clear had left empty
QueriesAfterUpload ==
    {i \in DOMAIN hist.queries : upl[1].cleared /\ 1 \in hist.queries[i].done}

\* every Document of a query is one indexed chunk: its text, page and source
ReturnsIndexedChunks(q) ==
    \A d \in DOMAIN q.docs :
        \E n \in DOMAIN upl[1].chunks :
            /\ q.docs[d].page_content = upl[1].chunks[n].page_content
            /\ q.docs[d].metadata.page = upl[1].chunks[n].metadata.page
            /\ q.docs[d].metadata.source = upl[1].chunks[n].metadata.source

\* some Document of a query has the upload's path as source and holds text
FindsText(q, text) ==
    \E d \in DOMAIN q.docs :
        /\ q.docs[d].metadata.source =
               PyStr(FilePath(1, upl[1].file.filename))
        /\ Contains(q.docs[d].page_content, text)

\* C16 as stated: after a document is indexed into an empty index, every
\* Document a retrieve returns is one indexed chunk (text, page, source), and
\* for a single-page document the retrieve returns a chunk whose source is
\* the document reference and whose content contains the page's text.
C16_RoundTrip ==
    \A i \in QueriesAfterUpload :
        /\ ReturnsIndexedChunks(hist.queries[i])
        /\ Len(upl[1].file.pages) = 1 =>
              FindsText(hist.queries[i], upl[1].file.pages[1].page_content)

\* C16 as amended: the same, the single-page document having text other
\* than white space and the chunk containing that text without the white
\* space around it.
C16_RoundTripOfStrippedText ==
    \A i \in QueriesAfterUpload :
        /\ ReturnsIndexedChunks(hist.queries[i])
        /\ (/\ Len(upl[1].file.pages) = 1
            /\ Strip(upl[1].file.pages[1].page_content) # <<>>) =>
              FindsText(hist.queries[i],
                        Strip(upl[1].file.pages[1].page_content))

C16_Witness ==
    /\ upl[1].pc = "done"
    /\ upl[1].cleared
    /\ upl[1].file.filename = "p.pdf"
    /\ Len(hist.queries) = 1
    /\ hist.queries[1].done = {1}
    /\ Len(hist.queries[1].docs) = 1
    /\ hist.queries[1].docs[1].page_content = <<"a">>
    /\ hist.queries[1].docs[1].metadata.source = PyStr(FilePath(1, "p.pdf"))

\* C17: retrieve returns one Document per match in the order of the
\* matches, at most k of them, fewer than k exactly when the index holds
\* fewer than k records, none for an empty index; the retrieval tool asks
\* for 4, so its citation map has keys C1..Cn with n <= 4.
C17_RetrieveKeepsRankAndBound ==
    ret # NoneVal =>
        /\ Len(ret.docs) = Len(ret.matches)
        /\ \A i \in DOMAIN ret.docs :
              /\ ret.docs[i].metadata = ret.matches[i].metadata
              /\ PyStr(ret.docs[i].page_content) = ret.matches[i].metadata.text
        /\ Len(ret.docs) <= ret.k
        /\ Len(ret.docs) < ret.k <=> Cardinality(index) < ret.k
        /\ index = {} => ret.docs = <<>>
        /\ ret.tool # NoneVal =>
              /\ ret.k = RetrievalK
              /\ ret.tool.artifact.docs = ret.docs
              /\ Keys(ret.tool.artifact.citation_map)
                     = {ChunkId(i) : i \in 1..Len(ret.docs)}
              /\ Keys(ret.tool.artifact.citation_map)
                     \subseteq {"C1", "C2", "C3", "C4"}

C17_Witness ==
    /\ ret # NoneVal
    /\ ret.tool # NoneVal
    /\ Cardinality(index) = 5
    /\ Len(ret.docs) = 4
    /\ ret.docs[1].page_content = <<"t", "5">>
    /\ ret.docs[4].page_content = <<"t", "2">>
    /\ Keys(ret.tool.artifact.citation_map) = {"C1", "C2", "C3", "C4"}

\* "[Ci] Chunk from page <page>:" for rank i, <page> being the page the
\* citation map of the same call records under Ci
BlockHeader(i, cm) ==
    <<"[", ChunkId(i), "]", " Chunk from page ">>
        \o Fmt(Lookup(cm, ChunkId(i)).page) \o <<":">>

\* blocks laid out in rank order with exactly one blank line between them
RECURSIVE BlankLineSeparated(_)
BlankLineSeparated(blocks) ==
    IF blocks = <<>> THEN <<>>
    ELSE IF Len(blocks) = 1 THEN blocks[1]
    ELSE blocks[1] \o <<"\n", "\n">> \o BlankLineSeparated(Tail(blocks))

C20_NormalisationKeepsSuppliedValues ==
    \A u \in Uploaders :
        upl[u].pc \in {"embed", "upsert", "done"} =>
            LET loaded == upl[u].file.pages
                docs   == ParentPages(u)
            IN  /\ Len(docs) = Len(loaded)
                /\ \A i \in DOMAIN loaded :
                      LET was == loaded[i].metadata
                          now == docs[i].metadata
                      IN  /\ docs[i].page_content = loaded[i].page_content
                          /\ (was.page = Missing /\ was.page_number = Missing)
                                => now.page = PyInt(i)
                          /\ was.source = Missing
                                => now.source = PyStr(FilePath(u, upl[u].file.filename))
                          /\ was.page # Missing => now.page = was.page
                          /\ was.page_number # Missing
                                => now.page_number = was.page_number
                          /\ was.source # Missing => now.source = was.source

\* the ids of the batches an upload has sent, one after the other
RECURSIVE SentIds(_)
SentIds(entries) ==
    IF entries = <<>> THEN <<>> ELSE Head(entries).ids \o SentIds(Tail(entries))

\* C21: within one index_documents call the record ids are pairwise
\* distinct, the batches sent so far are the vectors in chunk order, each
\* once, in batches of at most 100, and on success every vector was sent and
\* the count returned is the number of chunks, which is the number of
\* records upserted.
C21_EveryChunkUpsertedOnce ==
    \A u \in Uploaders :
        LET vectors == upl[u].vectors
            sent    == UpsertsOf(log, u)
            ids     == [n \in DOMAIN vectors |-> vectors[n].id]
        IN  /\ \A m, n \in DOMAIN vectors : m # n => ids[m] # ids[n]
            /\ \A k \in DOMAIN sent :
                  /\ sent[k].n = Len(sent[k].ids)
                  /\ sent[k].n \in 1..BatchSize
                  /\ sent[k].from = (k - 1) * BatchSize
            /\ Len(SentIds(sent)) <= Len(ids)
            /\ SentIds(sent) = SubSeq(ids, 1, Len(SentIds(sent)))
            /\ upl[u].pc = "done" =>
                  /\ SentIds(sent) = ids
                  /\ Len(vectors) = Len(upl[u].chunks)
                  /\ upl[u].response.status = 200
                  /\ upl[u].response.body.chunks_indexed = Len(upl[u].chunks)
                  /\ upl[u].response.body.chunks_indexed = Len(SentIds(sent))

C21_Witness ==
    \E u \in Uploaders :
        /\ upl[u].pc = "done"
        /\ Len(upl[u].chunks) = BatchSize + 1
        /\ Len(UpsertsOf(log, u)) = 2
        /\ UpsertsOf(log, u)[1].n = BatchSize
        /\ UpsertsOf(log, u)[2].n = 1
        /\ upl[u].response.body.chunks_indexed = BatchSize + 1

\* the content of the last assistant message of a transcript, read from its
\* end; the empty string when it holds none
RECURSIVE LastAssistantText(_)
LastAssistantText(transcript) ==
    IF transcript = <<>> THEN <<>>
    ELSE IF transcript[Len(transcript)].type = "ai"
         THEN transcript[Len(transcript)].content
         ELSE LastAssistantText(SubSeq(transcript, 1, Len(transcript) - 1))

\* C22: draft_answer is the content of the last assistant message of
\* Summarization's transcript and answer that of Verification's transcript
\* (the empty string for a transcript without assistant message);
\* Verification's transcript does not touch draft_answer, and the answer the
\* caller receives is Verification's output, not the draft.
C22_OutputsAreLastAssistantMessages ==
    /\ [](pc = "verification" =>
            /\ qa.draft_answer = PyStr(LastAssistantText(messages))
            /\ qa.answer = NoneVal)
    /\ [](pc = "done" =>
            /\ qa.answer = PyStr(LastAssistantText(messages))
            /\ response.status = 200
            /\ response.body.answer = qa.answer)
    /\ [][pc = "summarization" /\ pc' = "verification" =>
            /\ qa.draft_answer = NoneVal
            /\ qa'.draft_answer = PyStr(LastAssistantText(messages'))]_vars
    /\ [][pc = "verification" /\ pc' = "done" =>
            /\ qa'.draft_answer = qa.draft_answer
            /\ qa'.answer = PyStr(LastAssistantText(messages'))
            /\ response'.body.answer = qa'.answer]_vars

C22_Witness ==
    /\ pc = "done"
    /\ Len(messages) = 3
    /\ messages[2] = AIMessage(<<"w", "C1">>)
    /\ messages[3] = AIMessage(<<"w">>)
    /\ qa.draft_answer = PyStr(<<"w", "C2", "w", "C3">>)
    /\ qa.answer = PyStr(<<"w">>)
    /\ response.body.answer = PyStr(<<"w">>)

\* C23: once two uploads, each of which found or left the index empty at its
\* clear step, have both completed, the index holds the records of exactly
\* one of the two documents and no mixture of both.
C23_ConcurrentUploadsLeaveOneDocument ==
    \A u, v \in TwoUploaders :
        (/\ u # v
         /\ upl[u].pc = "done" /\ upl[v].pc = "done"
         /\ upl[u].cleared /\ upl[v].cleared)
            => index \in {RecordsOf(u), RecordsOf(v)}

\* C24: an upload that failed while loading, embedding or upserting leaves
\* no record of its document in the index.
C24_FailedUploadLeavesNoRecord ==
    \A u \in Uploaders :
        (upl[u].pc = "failed" /\ upl[u].failedAt \in {"load", "embed", "upsert"})
            => index \cap RecordsOf(u) = {}

\* the page numbers of a list of pages differ pairwise
DistinctPages(docs) ==
    \A i, j \in DOMAIN docs :
        i # j => Carried(docs[i].metadata) # Carried(docs[j].metadata)

\* C25: pages the loader numbered pairwise distinctly (or not at all) are
\* still numbered pairwise distinctly after index_pdf_file's normalisation,
\* and the page the serializer shows for a stored chunk, in the context
\* string and in the citation map, is the page number stored on it.
C25_PagesStayDistinguishable ==
    \A u \in Uploaders :
        upl[u].pc \in {"embed", "upsert", "done"} =>
            /\ DistinctPages(upl[u].file.pages) => DistinctPages(ParentPages(u))
            /\ \A n \in DOMAIN upl[u].vectors :
                  LET doc == MatchToDocument(upl[u].vectors[n])
                      out == serialize_chunks_with_ids(<<doc>>)
                  IN  /\ Lookup(out.citation_map, "C1").page
                             = Carried(doc.metadata)
                      /\ SubSeq(out.context, 1, 6)
                             = <<"[", "C1", "]", " Chunk from page ">>
                                   \o Fmt(Carried(doc.metadata)) \o <<":">>

====
